---- MODULE Spec2Model ----
(***************************************************************************)
(* A model of RodeysTweaksGamingOptimizer.cpp: the settings registry       *)
(* (GameOptimizer), its text persistence (SettingsManager), the key-value  *)
(* configuration (ConfigManager) and the thread pool that                  *)
(* ParallelOptimizer drives.  Text is modelled as sequences of             *)
(* one-character strings so that formatting and parsing are computed.      *)
(***************************************************************************)
EXTENDS Integers, Sequences, FiniteSets, TLC

VARIABLES
    settings,   \* GameOptimizer::settings, a sequence of Setting records
    disk,       \* content of the file at SettingsManager::filePath, or NoFile
    msg,        \* the last line the most recent call wrote to cout/cerr
    ret,        \* what the most recent call handed to its caller
    call,       \* the most recent call: its name and whether it changed the registry
    saved,      \* history: the registry the file on disk was last written from
    tasks,      \* ThreadPool::tasks, the queued tasks
    tasksMutex, \* ThreadPool::tasksMutex: the thread that holds it, or Unlocked
    stopThreads,\* ThreadPool::stopThreads
    worker,     \* each worker thread of the pool: its place in threadLoop and its locals
    main,       \* the thread that calls parallelOptimize and later destroys the pool
    runs,       \* history: how often each queued task was started and has finished
    config,     \* ConfigManager::config, a function from keys to values
    configDisk  \* content of the configuration file, or NoFile

ioVars == <<disk, msg, ret, call, saved>>
poolVars == <<tasks, tasksMutex, stopThreads, worker, main, runs>>
configVars == <<config, configDisk>>
vars == <<settings, disk, msg, ret, call, saved, tasks, tasksMutex, stopThreads, worker, main,
          runs, config, configDisk>>

(***************************************************************************)
(* Bounds of the model and input sets                                      *)
(***************************************************************************)
MaxSettings == 2
MaxLines == 2
NumWorkers == 2

\* the file at filePath: absent, or present with a text
NoFile == [exists |-> FALSE, text |-> <<>>]
File(t) == [exists |-> TRUE, text |-> t]

NL == "\n"
EQ == "="
SP == " "

\* names handed to addSetting / updateSetting
Names == { <<"a">>, <<"b">> }
\* (minValue, maxValue) handed to addSetting, min > max included
BoundPairs == { <<1, 5>>, <<-7, 5>>, <<1, 1>>, <<5, 1>> }
\* defaultValue handed to addSetting
DefaultVals == {3, 10}
\* targetPerformance handed to optimizeSettings
Targets == {-55, -50, 35, 70, 1000}
\* value handed to updateSetting
UpdateVals == {-5, 3, 12}

\* registries and file contents the persistence runs start from
CodecNames == { <<>>, <<"a">>, <<"a", EQ>>, <<NL>> }
CodecBounds == { <<-4, 12>> }
CodecDefaults == {3}
CodecUpdateVals == {-4, 12}
SampleLines == {
    <<"a", EQ, "7">>, <<"a", EQ, "1", "2", "x">>, <<"a", EQ, "6", EQ, "2">>,
    <<"a", "a">>, <<"a", EQ, "x">>, <<EQ, "8">>, <<"a", EQ, SP, "-", "4">>, <<>> }

\* lines of the configuration files loadConfig runs on
ConfigLines == {
    <<"k", EQ>>, <<"k", EQ, "a", EQ, "b">>, <<"k", EQ, "v">>,
    <<"j">>, <<EQ, "v">>, <<>> }
\* keys and values handed to setConfig
ConfigKeys == { <<"k">>, <<"j">> }
ConfigValues == { <<>>, <<"v">> }

(***************************************************************************)
(* Arithmetic as the C++ code computes it                                  *)
(***************************************************************************)
IntMax == 2147483647
IntMin == -IntMax - 1

Min(a, b) == IF b < a THEN b ELSE a
Max(a, b) == IF a < b THEN b ELSE a

\* the expression std::min(maxValue, std::max(minValue, v))
Clamp(v, minValue, maxValue) == Min(maxValue, Max(minValue, v))

\* C++ int division: the quotient is truncated toward zero
TruncDiv(a, b) ==
    IF a >= 0 THEN a \div b ELSE -((-a) \div b)

(***************************************************************************)
(* Text: operator<< of an int, std::getline and operator>> into an int     *)
(***************************************************************************)
DigitChars == <<"0", "1", "2", "3", "4", "5", "6", "7", "8", "9">>
IsDigit(c) == \E d \in 1..10 : DigitChars[d] = c
DigitVal(c) == (CHOOSE d \in 1..10 : DigitChars[d] = c) - 1
IsSpace(c) == c \in {SP, "\t", NL, "\r"}

RECURSIVE NatToText(_)
NatToText(n) ==
    IF n < 10 THEN <<DigitChars[n + 1]>>
    ELSE NatToText(n \div 10) \o <<DigitChars[(n % 10) + 1]>>

\* an int written without its sign
IntToTextUnsigned(n) == IF n < 0 THEN NatToText(-n) ELSE NatToText(n)

\* file << setting.value
IntToText(n) == IF n < 0 THEN <<"-">> \o NatToText(-n) ELSE NatToText(n)

\* position of the first c in s, 0 when there is none
IndexOf(s, c) ==
    IF \E i \in 1..Len(s) : s[i] = c
    THEN CHOOSE i \in 1..Len(s) : s[i] = c /\ \A j \in 1..(i - 1) : s[j] # c
    ELSE 0

\* the lines that while (std::getline(file, line)) yields, in order
RECURSIVE GetLines(_)
GetLines(text) ==
    IF text = <<>> THEN <<>>
    ELSE LET i == IndexOf(text, NL) IN
         IF i = 0 THEN <<text>>
         ELSE <<SubSeq(text, 1, i - 1)>> \o GetLines(SubSeq(text, i + 1, Len(text)))

\* the digits operator>> accumulates: acc is the value so far, carrying the sign
RECURSIVE AccDigits(_, _, _, _)
AccDigits(s, acc, neg, seen) ==
    IF s # <<>> /\ IsDigit(s[1])
    THEN LET d == DigitVal(s[1]) IN
         IF neg
         THEN IF acc < (IntMin + d + 9) \div 10
              THEN [ok |-> FALSE, value |-> IntMin]
              ELSE AccDigits(Tail(s), acc * 10 - d, neg, TRUE)
         ELSE IF acc > (IntMax - d) \div 10
              THEN [ok |-> FALSE, value |-> IntMax]
              ELSE AccDigits(Tail(s), acc * 10 + d, neg, TRUE)
    ELSE [ok |-> seen, value |-> acc]

RECURSIVE SkipSpace(_)
SkipSpace(s) == IF s # <<>> /\ IsSpace(s[1]) THEN SkipSpace(Tail(s)) ELSE s

\* ss >> value for an int: leading white space, an optional sign, then digits;
\* what follows the digits stays in the stream, and no digit is a failure
ExtractInt(s) ==
    LET t == SkipSpace(s) IN
    IF t = <<>> THEN [ok |-> FALSE, value |-> 0]
    ELSE IF t[1] = "-" THEN AccDigits(Tail(t), 0, TRUE, FALSE)
    ELSE IF t[1] = "+" THEN AccDigits(Tail(t), 0, FALSE, FALSE)
    ELSE AccDigits(t, 0, FALSE, FALSE)

\* a parse that takes a line only when the integer is all that follows the '='
ParseLineStrict(line) ==
    LET i == IndexOf(line, EQ)
        rest == SubSeq(line, i + 1, Len(line))
        x == ExtractInt(rest)
    IN
    IF line = <<>> \/ i = 0 THEN [ok |-> FALSE, name |-> line, value |-> 0]
    ELSE [ok |-> x.ok /\ IsDigit(rest[Len(rest)]) /\ IndexOf(rest, EQ) = 0,
          name |-> SubSeq(line, 1, i - 1), value |-> x.value]

\* std::getline(ss, name, '=') && (ss >> value) on one line
ParseLine(line) ==
    LET i == IndexOf(line, EQ) IN
    IF line = <<>> \/ i = 0 THEN [ok |-> FALSE, name |-> line, value |-> 0]
    ELSE LET x == ExtractInt(SubSeq(line, i + 1, Len(line))) IN
         [ok |-> x.ok, name |-> SubSeq(line, 1, i - 1), value |-> x.value]

(***************************************************************************)
(* GameOptimizer                                                           *)
(***************************************************************************)
Setting(n, v, minV, maxV) ==
    [name |-> n, value |-> v, minValue |-> minV, maxValue |-> maxV]

\* settings.emplace_back(name, defaultValue, minValue, maxValue)
SettingsAfterAdd(s, name, defaultValue, minValue, maxValue) ==
    Append(s, Setting(name, defaultValue, minValue, maxValue))

\* optimizeSettings that moves each value by targetPerformance / 10
SettingsAfterOptimizeRelative(s, targetPerformance) ==
    [i \in 1..Len(s) |->
        [s[i] EXCEPT !.value =
            Clamp(s[i].value + TruncDiv(targetPerformance, 10),
                  s[i].minValue, s[i].maxValue)]]

\* the loop of optimizeSettings
SettingsAfterOptimize(s, targetPerformance) ==
    [i \in 1..Len(s) |->
        [s[i] EXCEPT !.value =
            Clamp(TruncDiv(targetPerformance, 10), s[i].minValue, s[i].maxValue)]]

\* updateSetting with a break after the first match
SettingsAfterUpdateFirst(s, name, value) ==
    [i \in 1..Len(s) |->
        IF s[i].name = name /\ \A j \in 1..(i - 1) : s[j].name # name
        THEN [s[i] EXCEPT !.value = Clamp(value, s[i].minValue, s[i].maxValue)]
        ELSE s[i]]

\* updateSetting that inserts the Setting it does not find
SettingsAfterUpsert(s, name, value) ==
    IF \E i \in 1..Len(s) : s[i].name = name
    THEN [i \in 1..Len(s) |->
            IF s[i].name = name
            THEN [s[i] EXCEPT !.value = Clamp(value, s[i].minValue, s[i].maxValue)]
            ELSE s[i]]
    ELSE Append(s, Setting(name, value, value, value))

\* the loop of updateSetting: every element whose name matches is written
SettingsAfterUpdate(s, name, value) ==
    [i \in 1..Len(s) |->
        IF s[i].name = name
        THEN [s[i] EXCEPT !.value = Clamp(value, s[i].minValue, s[i].maxValue)]
        ELSE s[i]]

HasName(s, name) == \E i \in 1..Len(s) : s[i].name = name

\* label of the last call: the operation, whether it changed the registry,
\* its argument (optimizeSettings only) and whether it repeats the call before
Call(op, changed) == [op |-> op, changed |-> changed, arg |-> 0, again |-> FALSE]

RepeatsLastOptimize(targetPerformance) ==
    call.op = "optimizeSettings" /\ call.arg = targetPerformance

addSetting(name, defaultValue, minValue, maxValue) ==
    /\ Len(settings) < MaxSettings
    /\ settings' = SettingsAfterAdd(settings, name, defaultValue, minValue, maxValue)
    /\ msg' = "none"
    /\ ret' = "void"
    /\ call' = Call("addSetting", TRUE)
    /\ UNCHANGED <<disk, saved>>
    /\ UNCHANGED poolVars
    /\ UNCHANGED configVars

optimizeSettings(targetPerformance) ==
    /\ settings' = SettingsAfterOptimize(settings, targetPerformance)
    /\ msg' = IF Len(settings) > 0 THEN "Optimized" ELSE "none"
    /\ ret' = "void"
    /\ call' = [Call("optimizeSettings", settings' # settings)
                    EXCEPT !.arg = targetPerformance,
                           !.again = RepeatsLastOptimize(targetPerformance)]
    /\ UNCHANGED <<disk, saved>>
    /\ UNCHANGED poolVars
    /\ UNCHANGED configVars

updateSetting(name, value) ==
    /\ settings' = SettingsAfterUpdate(settings, name, value)
    /\ msg' = IF HasName(settings, name) THEN "Updated" ELSE "none"
    /\ ret' = "void"
    /\ call' = Call("updateSetting", settings' # settings)
    /\ UNCHANGED <<disk, saved>>
    /\ UNCHANGED poolVars
    /\ UNCHANGED configVars

(***************************************************************************)
(* SettingsManager                                                         *)
(***************************************************************************)
Header == <<"G", "a", "m", "e", SP, "S", "e", "t", "t", "i", "n", "g", "s", ":", NL>>

\* the loop of saveSettings: name=value and a line break for every Setting
RECURSIVE SettingLines(_)
SettingLines(s) ==
    IF s = <<>> THEN <<>>
    ELSE s[1].name \o <<EQ>> \o IntToText(s[1].value) \o <<NL>> \o SettingLines(Tail(s))

\* all that saveSettings writes into the opened file
SerializeText(s) == Header \o SettingLines(s)

\* an open for writing that truncates before it is known to have succeeded
DiskTruncatedFirst(d, opens) == File(<<>>)

\* std::ofstream file(filePath): a file that opens is created or truncated,
\* one that does not open is left as it was
DiskAfterOpenForWrite(d, opens) == IF opens THEN File(<<>>) ELSE d

\* the loop of loadSettings over the lines read
RECURSIVE ApplyLines(_, _)
ApplyLines(s, lines) ==
    IF lines = <<>> THEN s
    ELSE LET p == ParseLine(Head(lines)) IN
         ApplyLines(IF p.ok THEN SettingsAfterUpdate(s, p.name, p.value) ELSE s,
                    Tail(lines))

SettingsAfterLoad(s, text) == ApplyLines(s, GetLines(text))

saveSettings(opens) ==
    /\ disk' = LET opened == DiskAfterOpenForWrite(disk, opens) IN
               IF opens THEN File(opened.text \o SerializeText(settings)) ELSE opened
    /\ msg' = IF opens THEN "Settings saved to" ELSE "Failed to open file for saving"
    /\ ret' = "void"
    /\ call' = Call("saveSettings", FALSE)
    /\ saved' = IF opens THEN [written |-> TRUE, registry |-> settings] ELSE saved
    /\ UNCHANGED settings
    /\ UNCHANGED poolVars
    /\ UNCHANGED configVars

\* std::ifstream file(filePath) opens only a file that exists
loadSettings(opens) ==
    /\ opens => disk.exists
    /\ settings' = IF opens THEN SettingsAfterLoad(settings, disk.text) ELSE settings
    /\ msg' = IF opens THEN "Settings loaded from" ELSE "Failed to open file for loading"
    /\ ret' = "void"
    /\ call' = Call("loadSettings", settings' # settings)
    /\ UNCHANGED <<disk, saved>>
    /\ UNCHANGED poolVars
    /\ UNCHANGED configVars

(***************************************************************************)
(* ConfigManager                                                           *)
(***************************************************************************)
NoConfig == [k \in {} |-> <<>>]

\* no ConfigManager is in use
ConfigIdle ==
    /\ config = NoConfig
    /\ configDisk = NoFile

\* config[key] = value
ConfigPut(c, key, value) ==
    [k \in (DOMAIN c) \cup {key} |-> IF k = key THEN value ELSE c[k]]

\* std::getline(ss, key, '=') && std::getline(ss, value): the first succeeds
\* when the line is not empty, the second when a character follows the '='
ConfigLineParts(line) ==
    LET i == IndexOf(line, EQ) IN
    [ok |-> i > 0 /\ i < Len(line),
     key |-> SubSeq(line, 1, i - 1),
     value |-> SubSeq(line, i + 1, Len(line))]

\* the while loop of loadConfig
RECURSIVE ConfigAfterLines(_, _)
ConfigAfterLines(c, lines) ==
    IF lines = <<>> THEN c
    ELSE LET x == ConfigLineParts(Head(lines)) IN
         ConfigAfterLines(IF x.ok THEN ConfigPut(c, x.key, x.value) ELSE c, Tail(lines))

ConfigAfterLoad(c, text) == ConfigAfterLines(c, GetLines(text))

\* the order of std::map<std::string, std::string>: keys compared as strings
CharCode ==
    (EQ :> 61) @@ ("a" :> 97) @@ ("b" :> 98) @@ ("j" :> 106) @@ ("k" :> 107) @@ ("v" :> 118)

RECURSIVE KeyLess(_, _)
KeyLess(a, b) ==
    IF b = <<>> THEN FALSE
    ELSE IF a = <<>> THEN TRUE
    ELSE IF Head(a) # Head(b) THEN CharCode[Head(a)] < CharCode[Head(b)]
    ELSE KeyLess(Tail(a), Tail(b))

RECURSIVE SortedKeys(_)
SortedKeys(keys) ==
    IF keys = {} THEN <<>>
    ELSE LET first == CHOOSE k \in keys : \A o \in keys \ {k} : KeyLess(k, o) IN
         <<first>> \o SortedKeys(keys \ {first})

\* file << pair.first << "=" << pair.second << "\n" for every pair of the map
RECURSIVE ConfigPairLines(_, _)
ConfigPairLines(c, keys) ==
    IF keys = <<>> THEN <<>>
    ELSE Head(keys) \o <<EQ>> \o c[Head(keys)] \o <<NL>> \o ConfigPairLines(c, Tail(keys))

ConfigText(c) == ConfigPairLines(c, SortedKeys(DOMAIN c))

\* std::ifstream file(filePath) opens only a file that exists
loadConfig(opens) ==
    /\ opens => configDisk.exists
    /\ config' = IF opens THEN ConfigAfterLoad(config, configDisk.text) ELSE config
    /\ msg' = IF ~opens THEN "Failed to open configuration file"
              ELSE IF \E i \in 1..Len(GetLines(configDisk.text)) :
                          ConfigLineParts(GetLines(configDisk.text)[i]).ok
                   THEN "Loaded config" ELSE msg
    /\ ret' = "void"
    /\ call' = Call("loadConfig", config' # config)
    /\ UNCHANGED <<settings, disk, saved, configDisk>>
    /\ UNCHANGED poolVars

saveConfig(opens) ==
    /\ configDisk' = LET opened == DiskAfterOpenForWrite(configDisk, opens) IN
                     IF opens THEN File(opened.text \o ConfigText(config)) ELSE opened
    /\ msg' = IF opens THEN "Configuration saved to"
              ELSE "Failed to open configuration file for saving"
    /\ ret' = "void"
    /\ call' = Call("saveConfig", FALSE)
    /\ UNCHANGED <<settings, disk, saved, config>>
    /\ UNCHANGED poolVars

setConfig(key, value) ==
    /\ config' = ConfigPut(config, key, value)
    /\ msg' = "Set config"
    /\ ret' = "void"
    /\ call' = Call("setConfig", config' # config)
    /\ UNCHANGED <<settings, disk, saved, configDisk>>
    /\ UNCHANGED poolVars

(***************************************************************************)
(* ThreadPool and ParallelOptimizer                                        *)
(***************************************************************************)
Workers == 1..NumWorkers
MainThread == 0
Unlocked == -1

NoTask == [elem |-> 0]
IdleWorker == [pc |-> "top", task |-> NoTask, name |-> <<>>, value |-> 0, i |-> 0]
IdleMain == [pc |-> "idle", snapshot |-> <<>>, idx |-> 0, targetPerformance |-> 0]

\* no task has been started: one entry for each task parallelOptimize can queue
NoRuns == [e \in 1..MaxSettings |-> [started |-> 0, finished |-> 0]]

\* no pool exists: the state of the pool variables while the registry is
\* used from one thread
PoolIdle ==
    /\ tasks = <<>>
    /\ tasksMutex = Unlocked
    /\ stopThreads = FALSE
    /\ worker = [w \in Workers |-> IdleWorker]
    /\ main = IdleMain
    /\ runs = NoRuns

\* the snapshot returned by getSettings lives until the range-for ends, the
\* parameter targetPerformance until parallelOptimize returns
SnapshotLive == main.pc \in {"loop", "push"}
ParameterLive == main.pc \in {"loop", "push", "afterLoop"}

\* parallelOptimize: the range-for starts on a copy of the registry
BeginLoop ==
    /\ main.pc = "call"
    /\ main' = [main EXCEPT !.pc = "loop", !.snapshot = settings, !.idx = 1]
    /\ UNCHANGED <<settings, tasks, tasksMutex, stopThreads, worker, runs>>
    /\ UNCHANGED ioVars
    /\ UNCHANGED configVars

\* addTask: std::unique_lock lock(tasksMutex)
AddTaskLock ==
    /\ main.pc = "loop"
    /\ main.idx <= Len(main.snapshot)
    /\ tasksMutex = Unlocked
    /\ tasksMutex' = MainThread
    /\ main' = [main EXCEPT !.pc = "push"]
    /\ UNCHANGED <<settings, tasks, stopThreads, worker, runs>>
    /\ UNCHANGED ioVars
    /\ UNCHANGED configVars

\* addTask: tasks.emplace_back(task) and the unlock; the task holds a
\* reference to the element of the snapshot the loop is at
AddTaskPush ==
    /\ main.pc = "push"
    /\ tasks' = Append(tasks, [elem |-> main.idx])
    /\ tasksMutex' = Unlocked
    /\ main' = [main EXCEPT !.pc = "loop", !.idx = main.idx + 1]
    /\ UNCHANGED <<settings, stopThreads, worker, runs>>
    /\ UNCHANGED ioVars
    /\ UNCHANGED configVars

\* the range-for ends and the snapshot is destroyed
EndLoop ==
    /\ main.pc = "loop"
    /\ main.idx > Len(main.snapshot)
    /\ main' = [main EXCEPT !.pc = "afterLoop"]
    /\ UNCHANGED <<settings, tasks, tasksMutex, stopThreads, worker, runs>>
    /\ UNCHANGED ioVars
    /\ UNCHANGED configVars

\* benchmark.stop(), printResults and the return of parallelOptimize
ReturnFromOptimize ==
    /\ main.pc = "afterLoop"
    /\ main' = [main EXCEPT !.pc = "returned"]
    /\ UNCHANGED <<settings, tasks, tasksMutex, stopThreads, worker, runs>>
    /\ UNCHANGED ioVars
    /\ UNCHANGED configVars

\* ~ThreadPool: stopThreads = true under the lock
DestructorStop ==
    /\ main.pc = "returned"
    /\ tasksMutex = Unlocked
    /\ stopThreads' = TRUE
    /\ main' = [main EXCEPT !.pc = "join"]
    /\ UNCHANGED <<settings, tasks, tasksMutex, worker, runs>>
    /\ UNCHANGED ioVars
    /\ UNCHANGED configVars

\* ~ThreadPool: worker.join() for every worker
DestructorJoin ==
    /\ main.pc = "join"
    /\ \A w \in Workers : worker[w].pc = "exited"
    /\ main' = [main EXCEPT !.pc = "done"]
    /\ UNCHANGED <<settings, tasks, tasksMutex, stopThreads, worker, runs>>
    /\ UNCHANGED ioVars
    /\ UNCHANGED configVars

\* threadLoop: std::unique_lock lock(tasksMutex)
WorkerLock(w) ==
    /\ worker[w].pc = "top"
    /\ tasksMutex = Unlocked
    /\ tasksMutex' = w
    /\ worker' = [worker EXCEPT ![w].pc = "locked"]
    /\ UNCHANGED <<settings, tasks, stopThreads, main, runs>>
    /\ UNCHANGED ioVars
    /\ UNCHANGED configVars

\* threadLoop that breaks as soon as stopThreads is set
WorkerExitOnStop(w) ==
    /\ worker[w].pc = "locked"
    /\ stopThreads
    /\ tasksMutex' = Unlocked
    /\ worker' = [worker EXCEPT ![w].pc = "exited"]
    /\ UNCHANGED <<settings, tasks, stopThreads, main, runs>>
    /\ UNCHANGED ioVars
    /\ UNCHANGED configVars

\* threadLoop: if (stopThreads && tasks.empty()) break
WorkerExit(w) ==
    /\ worker[w].pc = "locked"
    /\ stopThreads /\ tasks = <<>>
    /\ tasksMutex' = Unlocked
    /\ worker' = [worker EXCEPT ![w].pc = "exited"]
    /\ UNCHANGED <<settings, tasks, stopThreads, main, runs>>
    /\ UNCHANGED ioVars
    /\ UNCHANGED configVars

\* threadLoop: task = std::move(tasks.back()); tasks.pop_back(); unlock
WorkerTake(w) ==
    /\ worker[w].pc = "locked"
    /\ tasks # <<>>
    /\ worker' = [worker EXCEPT ![w].pc = "run", ![w].task = tasks[Len(tasks)]]
    /\ tasks' = SubSeq(tasks, 1, Len(tasks) - 1)
    /\ tasksMutex' = Unlocked
    /\ UNCHANGED <<settings, stopThreads, main, runs>>
    /\ UNCHANGED ioVars
    /\ UNCHANGED configVars

\* threadLoop: nothing queued and not stopped: unlock, yield, loop again
WorkerYield(w) ==
    /\ worker[w].pc = "locked"
    /\ tasks = <<>> /\ ~stopThreads
    /\ tasksMutex' = Unlocked
    /\ worker' = [worker EXCEPT ![w].pc = "top"]
    /\ UNCHANGED <<settings, tasks, stopThreads, main, runs>>
    /\ UNCHANGED ioVars
    /\ UNCHANGED configVars

\* the name in the snapshot element a worker's task refers to
TaskElementName(w) ==
    IF worker[w].task.elem \in 1..Len(main.snapshot)
    THEN main.snapshot[worker[w].task.elem].name
    ELSE <<>>

\* the task evaluates setting.name and targetPerformance / 10 through the
\* references it captured; a reference whose object is gone reads what the
\* object held or anything else
TaskReadArguments(w, name, raw) ==
    /\ worker[w].pc = "run"
    /\ SnapshotLive => name = TaskElementName(w)
    /\ ParameterLive => raw = TruncDiv(main.targetPerformance, 10)
    /\ worker' = [worker EXCEPT ![w].pc = "update", ![w].name = name,
                                ![w].value = raw, ![w].i = 1]
    /\ runs' = [runs EXCEPT ![worker[w].task.elem].started = @ + 1]
    /\ UNCHANGED <<settings, tasks, tasksMutex, stopThreads, main>>
    /\ UNCHANGED ioVars
    /\ UNCHANGED configVars

\* one round of the loop of updateSetting, run by the task on the registry
TaskUpdateStep(w) ==
    /\ worker[w].pc = "update"
    /\ worker[w].i <= Len(settings)
    /\ settings' =
          IF settings[worker[w].i].name = worker[w].name
          THEN [settings EXCEPT ![worker[w].i].value =
                    Clamp(worker[w].value, settings[worker[w].i].minValue,
                          settings[worker[w].i].maxValue)]
          ELSE settings
    /\ worker' = [worker EXCEPT ![w].i = worker[w].i + 1]
    /\ UNCHANGED <<tasks, tasksMutex, stopThreads, main, runs>>
    /\ UNCHANGED ioVars
    /\ UNCHANGED configVars

\* updateSetting and the task return; threadLoop starts over
TaskReturn(w) ==
    /\ worker[w].pc = "update"
    /\ worker[w].i > Len(settings)
    /\ worker' = [worker EXCEPT ![w] = IdleWorker]
    /\ runs' = [runs EXCEPT ![worker[w].task.elem].finished = @ + 1]
    /\ UNCHANGED <<settings, tasks, tasksMutex, stopThreads, main>>
    /\ UNCHANGED ioVars
    /\ UNCHANGED configVars

(***************************************************************************)
(* Specifications                                                          *)
(***************************************************************************)
NoCall == Call("none", FALSE)
NotSaved == [written |-> FALSE, registry |-> <<>>]

Init ==
    /\ settings = <<>>
    /\ disk = NoFile
    /\ msg = "none"
    /\ ret = "none"
    /\ call = NoCall
    /\ saved = NotSaved
    /\ PoolIdle
    /\ ConfigIdle

Next ==
    \/ \E name \in Names, d \in DefaultVals, b \in BoundPairs :
          addSetting(name, d, b[1], b[2])
    \/ \E t \in Targets : optimizeSettings(t)
    \/ \E name \in Names, v \in UpdateVals : updateSetting(name, v)

\* the registry operations, from an empty registry
Spec == Init /\ [][Next]_vars

\* sequences over S of length at most n
RECURSIVE SeqsUpTo(_, _)
SeqsUpTo(S, n) ==
    IF n = 0 THEN { <<>> }
    ELSE LET shorter == SeqsUpTo(S, n - 1) IN
         shorter \cup { Append(q, x) : q \in shorter, x \in S }

RECURSIVE Flatten(_)
Flatten(lines) ==
    IF lines = <<>> THEN <<>> ELSE Head(lines) \o <<NL>> \o Flatten(Tail(lines))

CodecSettings ==
    { Setting(n, d, b[1], b[2]) : n \in CodecNames, d \in CodecDefaults, b \in CodecBounds }
CodecRegistries == SeqsUpTo(CodecSettings, MaxSettings)
ExternalTexts == { Flatten(ls) : ls \in SeqsUpTo(SampleLines, MaxLines) }

InitCodec ==
    /\ settings \in CodecRegistries
    /\ disk = NoFile
    /\ msg = "none"
    /\ ret = "none"
    /\ call = NoCall
    /\ saved = NotSaved
    /\ PoolIdle
    /\ ConfigIdle

NextCodec ==
    \/ \E opens \in BOOLEAN : saveSettings(opens)
    \/ \E opens \in BOOLEAN : loadSettings(opens)
    \/ \E name \in CodecNames, v \in CodecUpdateVals : updateSetting(name, v)

\* saving and loading, from a registry already filled by addSetting and no file
SpecCodec == InitCodec /\ [][NextCodec]_vars

InitLoad ==
    /\ settings \in CodecRegistries
    /\ disk \in { File(t) : t \in ExternalTexts }
    /\ msg = "none"
    /\ ret = "none"
    /\ call = NoCall
    /\ saved = NotSaved
    /\ PoolIdle
    /\ ConfigIdle

NextLoad == \E opens \in BOOLEAN : loadSettings(opens)

\* loading a file that was not written by saveSettings
SpecLoad == InitLoad /\ [][NextLoad]_vars

ConfigTexts == { Flatten(ls) : ls \in SeqsUpTo(ConfigLines, MaxLines) }

InitConfig ==
    /\ settings = <<>>
    /\ disk = NoFile
    /\ msg = "none"
    /\ ret = "none"
    /\ call = NoCall
    /\ saved = NotSaved
    /\ PoolIdle
    /\ config = NoConfig
    /\ configDisk \in {NoFile} \cup { File(t) : t \in ConfigTexts }

NextConfig ==
    \/ \E opens \in BOOLEAN : loadConfig(opens)
    \/ \E opens \in BOOLEAN : saveConfig(opens)
    \/ \E key \in ConfigKeys, value \in ConfigValues : setConfig(key, value)

\* a ConfigManager, from an empty map and a configuration file of any content
SpecConfig == InitConfig /\ [][NextConfig]_vars

\* registries and targets parallelOptimize runs on, and what a task can read
\* through a reference whose object is gone
ParSettings == { Setting(<<"a">>, 3, 1, 5), Setting(<<"b">>, 3, 1, 5) }
ParRegistries == SeqsUpTo(ParSettings, MaxSettings)
ParTargets == {50}
StaleNames == { <<"z">> }
StaleRaws == {99}

InitPar ==
    /\ settings \in ParRegistries
    /\ disk = NoFile
    /\ msg = "none"
    /\ ret = "none"
    /\ call = NoCall
    /\ saved = NotSaved
    /\ tasks = <<>>
    /\ tasksMutex = Unlocked
    /\ stopThreads = FALSE
    /\ worker = [w \in Workers |-> IdleWorker]
    /\ \E t \in ParTargets :
          main = [pc |-> "call", snapshot |-> <<>>, idx |-> 0, targetPerformance |-> t]
    /\ runs = NoRuns
    /\ ConfigIdle

NextPar ==
    \/ BeginLoop
    \/ AddTaskLock
    \/ AddTaskPush
    \/ EndLoop
    \/ ReturnFromOptimize
    \/ DestructorStop
    \/ DestructorJoin
    \/ \E w \in Workers : WorkerLock(w)
    \/ \E w \in Workers : WorkerExit(w)
    \/ \E w \in Workers : WorkerTake(w)
    \/ \E w \in Workers : WorkerYield(w)
    \/ \E w \in Workers :
          \E name \in StaleNames \cup {TaskElementName(w)},
             raw \in StaleRaws \cup {TruncDiv(main.targetPerformance, 10)} :
              TaskReadArguments(w, name, raw)
    \/ \E w \in Workers : TaskUpdateStep(w)
    \/ \E w \in Workers : TaskReturn(w)

\* a ParallelOptimizer over a filled registry: parallelOptimize, the workers
\* of its pool, and the destruction of the pool
SpecPar == InitPar /\ [][NextPar]_vars

(***************************************************************************)
(* Properties of the registry operations (checked under Spec)              *)
(***************************************************************************)
\* clamp as the documentation words it; with minValue > maxValue the code's
\* std::min(maxValue, std::max(minValue, v)) is maxValue
ClampSpec(v, lo, hi) ==
    IF lo > hi THEN hi ELSE IF v < lo THEN lo ELSE IF v > hi THEN hi ELSE v

\* every result the wording "minValue when raw < minValue, maxValue when
\* raw > maxValue and raw otherwise" allows
ClampReadings(raw, lo, hi) ==
    (IF raw < lo THEN {lo} ELSE {}) \cup (IF raw > hi THEN {hi} ELSE {})
    \cup (IF raw >= lo /\ raw <= hi THEN {raw} ELSE {})

FirstIndexOfName(s, name) ==
    CHOOSE i \in 1..Len(s) : s[i].name = name /\ \A j \in 1..(i - 1) : s[j].name # name

SameDefinitions(s, t) ==
    /\ Len(s) = Len(t)
    /\ \A i \in 1..Len(s) :
          /\ s[i].name = t[i].name
          /\ s[i].minValue = t[i].minValue
          /\ s[i].maxValue = t[i].maxValue

\* C1: every Setting added with minValue <= maxValue has
\* minValue <= value <= maxValue after every call
C1_BoundsInvariant ==
    \A i \in 1..Len(settings) :
        settings[i].minValue <= settings[i].maxValue =>
            /\ settings[i].minValue <= settings[i].value
            /\ settings[i].value <= settings[i].maxValue

\* C2: optimizeSettings(t) leaves every Setting of the registry at
\* clamp(t / 10, minValue, maxValue), the division truncating toward zero
C2_OptimizeClampsEverySetting ==
    [][\A t \in Targets :
          optimizeSettings(t) =>
              \A i \in 1..Len(settings) :
                  settings'[i].value \in
                      ClampReadings(TruncDiv(t, 10), settings[i].minValue,
                                    settings[i].maxValue)]_vars

\* C4 as stated: updateSetting writes only the first Setting that carries the
\* name; every other Setting, later ones of the same name included, is kept
C4_OnlyFirstMatchWritten ==
    [][\A n \in Names, v \in UpdateVals :
          (updateSetting(n, v) /\ HasName(settings, n)) =>
              LET f == FirstIndexOfName(settings, n) IN
              /\ Len(settings') = Len(settings)
              /\ settings'[f].value =
                     ClampSpec(v, settings[f].minValue, settings[f].maxValue)
              /\ \A j \in 1..Len(settings) : j # f => settings'[j] = settings[j]]_vars

\* C4 amended: updateSetting writes every Setting that carries the name, each
\* to the raw value clamped into its own bounds, and keeps every other
\* Setting and all names and bounds
C4_EveryMatchWritten ==
    [][\A n \in Names, v \in UpdateVals :
          updateSetting(n, v) =>
              /\ SameDefinitions(settings', settings)
              /\ \A j \in 1..Len(settings) :
                    settings'[j].value =
                        IF settings[j].name = n
                        THEN ClampSpec(v, settings[j].minValue, settings[j].maxValue)
                        ELSE settings[j].value]_vars

C4_Witness ==
    /\ call.op = "updateSetting"
    /\ call.changed
    /\ Len(settings) = 2
    /\ settings[1].name = settings[2].name
    /\ settings[1].minValue < settings[1].maxValue
    /\ settings[2].minValue < settings[2].maxValue
    /\ settings[1].value = settings[1].maxValue
    /\ settings[2].value = settings[2].maxValue

\* C5: updateSetting with a name no Setting carries returns normally and
\* leaves the registry as it was
C5_UnknownNameIsNoOp ==
    [][\A n \in Names, v \in UpdateVals :
          (updateSetting(n, v) /\ ~HasName(settings, n)) =>
              /\ settings' = settings
              /\ ret' = "void"]_vars

C5_Witness ==
    /\ call.op = "updateSetting"
    /\ msg = "none"
    /\ ~call.changed
    /\ Len(settings) > 0

\* C8: the registry never holds a Setting with minValue > maxValue, because
\* addSetting rejects such bounds
C8_NoInvalidBounds ==
    \A i \in 1..Len(settings) : settings[i].minValue <= settings[i].maxValue

(***************************************************************************)
(* Properties of saving and loading (checked under SpecCodec and SpecLoad) *)
(***************************************************************************)
InBounds(s) ==
    \A i \in 1..Len(s) :
        s[i].minValue <= s[i].value /\ s[i].value <= s[i].maxValue

NamesDistinct(s) ==
    \A i, j \in 1..Len(s) : i # j => s[i].name # s[j].name

NamesPlain(s) ==
    \A i \in 1..Len(s) : IndexOf(s[i].name, EQ) = 0 /\ IndexOf(s[i].name, NL) = 0

\* a successful loadSettings into a registry of in-bounds values that has the
\* definitions of the registry the file was saved from
LoadsSavedFile ==
    /\ loadSettings(TRUE)
    /\ saved.written
    /\ SameDefinitions(saved.registry, settings)
    /\ InBounds(saved.registry)
    /\ InBounds(settings)

\* C3 as stated: for any registry of in-bounds values, loading what
\* saveSettings wrote into a registry of the same definitions gives every
\* Setting the value it had when saved
C3_RoundTripAnyRegistry ==
    [][LoadsSavedFile => settings' = saved.registry]_vars

\* C3 amended: the same, for registries whose names are pairwise distinct and
\* hold no '=' and no line break
C3_RoundTripPlainDistinctNames ==
    [][(LoadsSavedFile /\ NamesDistinct(settings) /\ NamesPlain(settings))
          => settings' = saved.registry]_vars

C3_Witness ==
    /\ call.op = "loadSettings"
    /\ call.changed
    /\ msg = "Settings loaded from"
    /\ saved.written
    /\ settings = saved.registry
    /\ Len(settings) = 2
    /\ InBounds(settings)
    /\ NamesDistinct(settings)
    /\ NamesPlain(settings)
    /\ \E i \in 1..2 : settings[i].value < 0

\* C9: a loadSettings that cannot open the file leaves every Setting as it
\* was, and a saveSettings that cannot open it leaves the file as it was
C9_OpenFailureChangesNothing ==
    [][/\ loadSettings(FALSE) => settings' = settings
       /\ saveSettings(FALSE) => (disk' = disk /\ settings' = settings)]_vars

C9_Witness ==
    /\ call.op = "saveSettings"
    /\ msg = "Failed to open file for saving"
    /\ disk.exists
    /\ saved.written
    /\ saved.registry # settings
    /\ disk.text = SerializeText(saved.registry)
    /\ Len(saved.registry) > 0

\* C10: after an open failure the caller of saveSettings or loadSettings holds
\* an outcome other than the one a successful call hands back
C10_OpenFailureReachesCaller ==
    (/\ call.op \in {"saveSettings", "loadSettings"}
     /\ msg \in {"Failed to open file for saving", "Failed to open file for loading"})
        => ret # "void"

(***************************************************************************)
(* Which lines loadSettings applies (checked under SpecLoad)               *)
(***************************************************************************)
CountOf(s, c) == Cardinality({ i \in 1..Len(s) : s[i] = c })

RECURSIVE Pow10(_)
Pow10(n) == IF n = 0 THEN 1 ELSE 10 * Pow10(n - 1)

\* the number a run of digits writes, by place value
RECURSIVE PlaceValue(_)
PlaceValue(ds) ==
    IF ds = <<>> THEN 0
    ELSE DigitVal(ds[1]) * Pow10(Len(ds) - 1) + PlaceValue(Tail(ds))

AllDigits(s) == \A i \in 1..Len(s) : IsDigit(s[i])

\* a signed integer and nothing else: an optional sign, then digits only
IsWholeInteger(s) ==
    /\ s # <<>>
    /\ LET ds == IF s[1] \in {"-", "+"} THEN Tail(s) ELSE s IN
       ds # <<>> /\ AllDigits(ds)

WholeIntegerValue(s) ==
    IF s[1] = "-" THEN -PlaceValue(Tail(s))
    ELSE IF s[1] = "+" THEN PlaceValue(Tail(s))
    ELSE PlaceValue(s)

\* s begins, after white space, with a signed integer: the prefixes of s that
\* are white space followed by a whole integer
IntegerPrefixes(s) ==
    { k \in 1..Len(s) :
        \E w \in 0..(k - 1) :
            /\ \A i \in 1..w : IsSpace(s[i])
            /\ IsWholeInteger(SubSeq(s, w + 1, k)) }

LongestIntegerPrefix(s) ==
    CHOOSE k \in IntegerPrefixes(s) : \A m \in IntegerPrefixes(s) : m <= k

PrefixValue(s) ==
    LET k == LongestIntegerPrefix(s)
        w == CHOOSE w \in 0..(k - 1) :
                 /\ \A i \in 1..w : IsSpace(s[i])
                 /\ IsWholeInteger(SubSeq(s, w + 1, k))
    IN WholeIntegerValue(SubSeq(s, w + 1, k))

AfterFirstEq(line) == SubSeq(line, IndexOf(line, EQ) + 1, Len(line))
BeforeFirstEq(line) == SubSeq(line, 1, IndexOf(line, EQ) - 1)

\* the lines C6 says are applied: exactly one '=', a name before it, and an
\* integer as the whole of what follows
StatedApplied(line) ==
    /\ CountOf(line, EQ) = 1
    /\ BeforeFirstEq(line) # <<>>
    /\ IsWholeInteger(AfterFirstEq(line))

\* the lines the code applies: a first '=' followed, after white space, by a
\* signed integer; what follows the integer is not looked at
PrefixApplied(line) ==
    /\ CountOf(line, EQ) >= 1
    /\ IntegerPrefixes(AfterFirstEq(line)) # {}

\* the registry after updateSetting(name, value) for each update, in order
RECURSIVE UpdatesApplied(_, _)
UpdatesApplied(s, updates) ==
    IF updates = <<>> THEN s
    ELSE UpdatesApplied(
             SettingsAfterUpdate(s, Head(updates).name, Head(updates).value),
             Tail(updates))

StatedUpdates(lines) ==
    LET kept == SelectSeq(lines, StatedApplied) IN
    [i \in 1..Len(kept) |->
        [name |-> BeforeFirstEq(kept[i]),
         value |-> WholeIntegerValue(AfterFirstEq(kept[i]))]]

PrefixUpdates(lines) ==
    LET kept == SelectSeq(lines, PrefixApplied) IN
    [i \in 1..Len(kept) |->
        [name |-> BeforeFirstEq(kept[i]),
         value |-> PrefixValue(AfterFirstEq(kept[i]))]]

\* C6 as stated: loadSettings applies exactly the lines with one '=', a
\* non-empty name and a value that is an integer throughout; it skips every
\* other line, goes on with the lines after it and returns normally
C6_AppliesOnlyWholeIntegerLines ==
    [][loadSettings(TRUE) =>
          /\ settings' = UpdatesApplied(settings, StatedUpdates(GetLines(disk.text)))
          /\ ret' = "void"]_vars

\* C6 amended: loadSettings applies exactly the lines that hold a '=' whose
\* first one is followed, after optional white space, by a signed base-10
\* integer (what follows the integer, a further '=' included, is ignored and
\* the name may be empty); it skips every other line, goes on with the lines
\* after it and returns normally
C6_AppliesIntegerPrefixLines ==
    [][loadSettings(TRUE) =>
          /\ settings' = UpdatesApplied(settings, PrefixUpdates(GetLines(disk.text)))
          /\ ret' = "void"]_vars

C6_Witness ==
    /\ call.op = "loadSettings"
    /\ call.changed
    /\ GetLines(disk.text) = << <<"a", "a">>, <<"a", EQ, "1", "2", "x">> >>
    /\ Len(settings) = 2
    /\ settings[1].name = <<"a">>
    /\ settings[1].value = 12
    /\ settings[2].name = <<>>
    /\ settings[2].value \in CodecDefaults

(***************************************************************************)
(* Properties of the parallel optimization (checked under SpecPar)         *)
(***************************************************************************)
InUpdateSetting(w) == worker[w].pc = "update"

\* C7: at most one worker thread at a time is inside updateSetting on the
\* shared registry
C7_UpdatesMutuallyExclusive ==
    Cardinality({ w \in Workers : InUpdateSetting(w) }) <= 1

(***************************************************************************)
(* C11: optimizeSettings is idempotent.  For any registry and any fixed    *)
(* targetPerformance, a call of optimizeSettings that directly follows a   *)
(* call with the same targetPerformance leaves the registry exactly as the *)
(* first call left it.                                                     *)
(***************************************************************************)
C11_OptimizeIdempotent ==
    [][\A t \in Targets :
          (optimizeSettings(t) /\ RepeatsLastOptimize(t)) => settings' = settings]_vars

\* a second call in a row, on a full registry the first call had rewritten
C11_Witness ==
    /\ call.op = "optimizeSettings"
    /\ call.again
    /\ ~call.changed
    /\ Len(settings) = MaxSettings
    /\ \E i \in 1..Len(settings) : settings[i].value \notin DefaultVals

(***************************************************************************)
(* Properties of the configuration file (checked under SpecConfig)         *)
(***************************************************************************)
\* the map C12 describes: every line that holds a '=' stores what is before
\* its first '=' as the key and everything after it, the empty string
\* included, as the value
RECURSIVE ConfigAfterStated(_, _)
ConfigAfterStated(c, lines) ==
    IF lines = <<>> THEN c
    ELSE LET line == Head(lines) IN
         ConfigAfterStated(
             IF IndexOf(line, EQ) > 0
             THEN ConfigPut(c, BeforeFirstEq(line), AfterFirstEq(line))
             ELSE c,
             Tail(lines))

(***************************************************************************)
(* C12: loadConfig splits every line on its first '=' into (key, value)    *)
(* and tolerates a missing trailing value: the line "key=" stores key with *)
(* the empty string, the line "k=a=b" stores k with the value "a=b".       *)
(***************************************************************************)
C12_SplitsOnFirstEqKeepsEmptyValue ==
    [][loadConfig(TRUE) =>
          config' = ConfigAfterStated(config, GetLines(configDisk.text))]_vars

(***************************************************************************)
(* Properties of the thread pool (checked under SpecPar)                   *)
(***************************************************************************)
\* the tasks handed to addTask so far
QueuedSoFar == 1..(main.idx - 1)

(***************************************************************************)
(* C13: the pool drains before shutdown.  In every interleaving a task     *)
(* handed to addTask is started at most once, a worker that has left       *)
(* threadLoop left it with stopThreads set and the queue empty, and when   *)
(* the destructor has returned the queue is empty and every task that was  *)
(* queued has been started and has finished exactly once; until then some  *)
(* thread can always take a step.                                          *)
(***************************************************************************)
C13_PoolDrainsBeforeShutdown ==
    /\ \A e \in DOMAIN runs :
          /\ runs[e].started <= 1
          /\ runs[e].finished <= runs[e].started
          /\ runs[e].started = 1 => e \in QueuedSoFar
    /\ \A w \in Workers :
          worker[w].pc = "exited" => stopThreads /\ tasks = <<>>
    /\ main.pc = "done" =>
          /\ tasks = <<>>
          /\ \A w \in Workers : worker[w].pc = "exited"
          /\ \A e \in 1..Len(main.snapshot) :
                runs[e].started = 1 /\ runs[e].finished = 1
    /\ main.pc # "done" => ENABLED NextPar

\* the destructor has returned after a full queue of tasks was run
C13_Witness ==
    /\ main.pc = "done"
    /\ Len(main.snapshot) = MaxSettings
    /\ \A e \in 1..MaxSettings : runs[e].finished = 1

(***************************************************************************)
(* C14: the tasks queued by parallelOptimize only read live data.  No      *)
(* queued task runs, that is evaluates setting.name and targetPerformance, *)
(* after the loop over the snapshot has ended or after parallelOptimize    *)
(* has returned.                                                           *)
(***************************************************************************)
C14_TasksReadLiveData ==
    [][\A w \in Workers :
          (worker[w].pc = "run" /\ worker'[w].pc = "update")
              => (SnapshotLive /\ ParameterLive)]_vars
====
